---- MODULE Spec2Model ----
\* A model of azu_api.py: the three data endpoints (/sprints, /work-items,
\* /work-items/summary), their outbound calls to the remote work-tracking
\* system, and the pure helpers they use.
\*
\* Encoding.  A Python str is a sequence of one-character strings.  An optional
\* value (Optional[...], a dict key that may be missing, a JSON null) is a
\* sequence of length 0 (None / absent) or 1 (the value).
EXTENDS Integers, Sequences, FiniteSets, TLC

VARIABLES
    configured,      \* all([ORG, PROJECT]): static configuration of the server
    world,           \* the remote data this request reads: [n, seed, flaky]
    pc,              \* position of the request being served
    endpoint,        \* the route of the request being served
    authorization,   \* its Authorization header (optional str)
    pat,             \* the token extracted from the header
    calls,           \* outbound calls issued by this request, in order
    replies,         \* the replies received to those calls, in order
    iterations,      \* the 'value' array of the iterations reply
    work_item_ids,   \* ids returned by the WIQL query
    i,               \* loop variable of the detail batch loop
    all_items_data,  \* raw items gathered from the detail batches
    result,          \* return value of get_work_items_by_sprint (optional)
    status,          \* HTTP status of the response, 0 while none is sent
    detail,          \* detail of the HTTPException (optional)
    body             \* JSON body of a successful response (optional)

vars == <<configured, world, pc, endpoint, authorization, pat, calls, replies,
          iterations, work_item_ids, i, all_items_data, result, status, detail, body>>

-----------------------------------------------------------------------------
\* Bounds of the model

\* the WIQL query returns between 0 and MaxIds ids
MaxIds == 401
\* every id count from 0 to SmallIds is explored, beside the batch boundaries
SmallIds == 3
\* the iterations endpoint returns at most MaxIters iterations
MaxIters == 4
\* the remote data is laid out from a seed in 0..MaxSeed
MaxSeed == 1

-----------------------------------------------------------------------------
\* Optional values and strings

None == <<>>
Some(v) == <<v>>

Min(a, b) == IF a < b THEN a ELSE b

\* "Bearer "
Bearer == <<"B", "e", "a", "r", "e", "r", " ">>
\* a token
Tok == <<"t">>
\* 'N/A'
NA == <<"N", "/", "A">>

\* str.replace(old, ""): every non-overlapping occurrence, left to right
RECURSIVE ReplaceWithEmpty(_, _)
ReplaceWithEmpty(s, old) ==
    IF Len(s) < Len(old) THEN s
    ELSE IF SubSeq(s, 1, Len(old)) = old
         THEN ReplaceWithEmpty(SubSeq(s, Len(old) + 1, Len(s)), old)
         ELSE <<Head(s)>> \o ReplaceWithEmpty(Tail(s), old)

RECURSIVE LStrip(_)
LStrip(s) == IF s # <<>> /\ Head(s) = " " THEN LStrip(Tail(s)) ELSE s

RECURSIVE RStrip(_)
RStrip(s) ==
    IF s # <<>> /\ s[Len(s)] = " " THEN RStrip(SubSeq(s, 1, Len(s) - 1)) ELSE s

\* str.strip()
Strip(s) == RStrip(LStrip(s))

\* position of the first c in s at or after position from, 0 when there is none
RECURSIVE IndexFrom(_, _, _)
IndexFrom(s, c, from) ==
    IF from > Len(s) THEN 0
    ELSE IF s[from] = c THEN from
    ELSE IndexFrom(s, c, from + 1)

\* re.sub(r'<[^>]+>', '', s): a tag is "<", one or more characters other than
\* ">", then ">"; matches are taken leftmost, scanning resumes after a match
RECURSIVE RemoveTags(_)
RemoveTags(s) ==
    IF s = <<>> THEN <<>>
    ELSE IF Head(s) = "<" /\ IndexFrom(s, ">", 2) > 2
         THEN RemoveTags(SubSeq(s, IndexFrom(s, ">", 2) + 1, Len(s)))
         ELSE <<Head(s)>> \o RemoveTags(Tail(s))

\* strip_html(text), text optional
strip_html(text) ==
    IF text = None \/ text[1] = <<>> THEN <<>>
    ELSE Strip(RemoveTags(text[1]))

-----------------------------------------------------------------------------
\* The remote system.  A reply is [status, text]; status 0 stands for a call
\* that raised requests.exceptions.RequestException instead of returning.

NetworkError == [status |-> 0, text |-> "connection failed"]
ErrorReplies == {[status |-> 401, text |-> "denied"],
                 [status |-> 503, text |-> "unavailable"]}
OkReply == [status |-> 200, text |-> "ok"]

\* raw free-text values the remote holds (descriptions, comment texts)
RawTexts ==
    << None,
       Some(<<>>),
       Some(<<"<", "p", ">", "<", "/", "p", ">">>),
       Some(<<"a">>),
       Some(<<"<", "b", ">", "h", "i", "<", "/", "b", ">", " ", " ">>),
       Some(<<" ">>),
       Some(<<"a", "<", ">", "b", " ">>) >>

\* System.CommentCount of an item: absent, 0 or positive
CountTable == << Some(2), None, Some(0) >>

\* System.Title of an item: present or absent
TitleTable == << Some(<<"T">>), None >>

\* the comment threads the comments endpoint serves (texts, each optional)
ThreadTable ==
    << << Some(<<"<", "p", ">", "<", "/", "p", ">">>) >>,
       << Some(<<"a">>), None, Some(<<"<", "b", ">", "h", "i", "<", "/", "b", ">", " ", " ">>) >>,
       << >>,
       << Some(<<"a", "<", ">", "b", " ">>), Some(<<>>) >> >>

\* how the comments endpoint answers for an item
CommentReplyTable == << [status |-> 503, text |-> "unavailable"], OkReply, NetworkError >>

Pick(table, k) == table[(k % Len(table)) + 1]

\* the item the batch detail endpoint returns for an id
RemoteItem(id, seed) ==
    [id           |-> id,
     title        |-> Pick(TitleTable, id + seed),
     description  |-> Pick(RawTexts, id + seed),
     commentCount |-> Pick(CountTable, id + seed)]

\* the answer of the comments endpoint for an id: always 200 unless the
\* endpoint is flaky
RemoteCommentsReply(id, w) ==
    IF w.flaky THEN Pick(CommentReplyTable, (id + w.seed) \div 3) ELSE OkReply

\* the 'comments' array of that answer
RemoteComments(id, w) ==
    LET texts == Pick(ThreadTable, (id + w.seed) \div 9)
    IN  [k \in 1..Len(texts) |-> [id |-> k, text |-> texts[k]]]

\* the ids the WIQL query returns, in the order the remote gives them
RemoteIds(w) ==
    [k \in 1..w.n |-> IF w.seed % 2 = 1 THEN w.n + 1 - k ELSE k]

\* the phase tags an iteration may carry (attributes.timeFrame, optional)
Phases == {Some("current"), Some("future"), Some("past"), Some("other"), None}

\* the 'value' arrays the iterations endpoint may return
IterationLists ==
    UNION {[1..k -> Phases] : k \in 0..MaxIters}

-----------------------------------------------------------------------------
\* Validation of a request

\* batch_size
batch_size == 200

\* the value of the 'sprint' query parameter
SprintName == "Sprint 37"

\* "not authorization": the header is missing or empty
NoAuthorization(auth) == auth = None \/ auth[1] = <<>>

\* authorization.replace("Bearer ", "").strip()
ExtractPat(auth) == Strip(ReplaceWithEmpty(auth[1], Bearer))

\* the checks at the head of list_sprints: 0 when the request may proceed,
\* else the status of the HTTPException raised
\* (seeded fault: with the two checks swapped)
ListSprintsValidateHeaderFirst(cfg, auth) ==
    IF NoAuthorization(auth) THEN 401
    ELSE IF ~cfg THEN 500
    ELSE 0

ListSprintsValidate(cfg, auth) ==
    IF ~cfg THEN 500
    ELSE IF NoAuthorization(auth) THEN 401
    ELSE 0

\* the check at the head of get_work_items and get_work_items_summary
EndpointValidate(auth) == IF NoAuthorization(auth) THEN 401 ELSE 0

\* the checks at the head of get_work_items_by_sprint
EngineValidate(cfg, p) ==
    IF ~cfg THEN 500
    ELSE IF p = <<>> THEN 401
    ELSE 0

\* the status a /work-items or /work-items/summary request is refused with,
\* 0 when it proceeds to the WIQL query
WorkItemsValidate(cfg, auth) ==
    IF EndpointValidate(auth) # 0 THEN EndpointValidate(auth)
    ELSE EngineValidate(cfg, ExtractPat(auth))

-----------------------------------------------------------------------------
\* get_work_items_by_sprint

\* the envelope returned when the WIQL query finds nothing
\* (seeded fault: with a wrong count)
EmptyEnvelopeMiscounted(sprint) ==
    [sprint |-> sprint, total_count |-> 1, created_by_me |-> 0,
     assigned_to_me |-> 0, work_items |-> <<>>]

EmptyEnvelope(sprint) ==
    [sprint |-> sprint, total_count |-> 0, created_by_me |-> 0,
     assigned_to_me |-> 0, work_items |-> <<>>]

\* the HTTPException raised for a WIQL / iterations reply other than 200
\* (seeded fault: that does not forward the status)
UpstreamErrorAs500(msg, reply) ==
    [status |-> 500, detail |-> [msg |-> msg, text |-> reply.text]]

UpstreamError(msg, reply) ==
    [status |-> reply.status, detail |-> [msg |-> msg, text |-> reply.text]]

\* the HTTPException the except clauses make of a raised exception
ServerError(msg, reply) ==
    [status |-> 500, detail |-> [msg |-> msg, text |-> reply.text]]

\* range(0, len(work_item_ids), batch_size): whether the loop runs for i
InRange(k, n) == k < n

\* work_item_ids[i:i + batch_size]
\* (seeded fault: with the slice starting one too far)
BatchIdsFromOne(ids, k) == SubSeq(ids, k + 2, Min(k + batch_size, Len(ids)))

BatchIds(ids, k) == SubSeq(ids, k + 1, Min(k + batch_size, Len(ids)))

\* the 'value' array of a successful detail reply
DetailsValue(ids, seed) == [k \in 1..Len(ids) |-> RemoteItem(ids[k], seed)]

\* if details_response.status_code == 200: all_items_data.extend(value)
\* (seeded fault: that assigns instead of extending)
ExtendReplaces(all, reply, value) == IF reply.status = 200 THEN value ELSE all

Extend(all, reply, value) == IF reply.status = 200 THEN all \o value ELSE all

\* fields.get('System.CommentCount', 0)
CommentsCount(item) ==
    IF item.commentCount = None THEN 0 ELSE item.commentCount[1]

\* the guard of the comment fetch: comments_count > 0
\* (seeded fault: with >= in place of >)
WantsCommentsFromZero(comments_count) == comments_count >= 0

WantsComments(comments_count) == comments_count > 0

\* get_comments_for_item: the list it returns
get_comments_for_item(item_id, w) ==
    LET reply == RemoteCommentsReply(item_id, w)
        raw   == RemoteComments(item_id, w)
    IN  IF reply.status = 200
        THEN [k \in 1..Len(raw) |->
                 [id |-> raw[k].id, text |-> strip_html(raw[k].text)]]
        ELSE <<>>

\* "comments": comments if comments else None
\* (seeded fault: that keeps the empty list)
CommentsFieldKeepsEmpty(comments) == Some(comments)

CommentsField(comments) == IF comments # <<>> THEN Some(comments) ELSE None

\* the comments fetched for an item of all_items_data
ItemComments(item, w) ==
    IF WantsComments(CommentsCount(item))
    THEN get_comments_for_item(item.id, w)
    ELSE <<>>

\* the dict appended to work_items for an item of all_items_data
BuildWorkItem(item, w) ==
    [id             |-> item.id,
     title          |-> IF item.title = None THEN NA ELSE item.title[1],
     description    |-> strip_html(item.description),
     comments_count |-> CommentsCount(item),
     comments       |-> CommentsField(ItemComments(item, w))]

\* the work_items list built by the loop over all_items_data
BuildWorkItems(all, w) == [k \in 1..Len(all) |-> BuildWorkItem(all[k], w)]

\* the comment calls that loop issues, in order, and their replies
CommentCall(item) == [kind |-> "comments", ids |-> <<item.id>>]

CommentCalls(all) ==
    LET wanted == SelectSeq(all, LAMBDA it : WantsComments(CommentsCount(it)))
    IN  [k \in 1..Len(wanted) |-> CommentCall(wanted[k])]

CommentReplies(all, w) ==
    LET cs == CommentCalls(all)
    IN  [k \in 1..Len(cs) |-> RemoteCommentsReply(cs[k].ids[1], w)]

\* the envelope returned after the loop
Envelope(sprint, work_items) ==
    [sprint |-> sprint, total_count |-> Len(work_items), created_by_me |-> 0,
     assigned_to_me |-> 0, work_items |-> work_items]

-----------------------------------------------------------------------------
\* get_work_items_summary: the reduction of the envelope

\* [c.get('text', '') for c in item['comments'] if c.get('text')]
NonEmptyTexts(comments) ==
    LET kept == SelectSeq(comments, LAMBDA c : c.text # <<>>)
    IN  [k \in 1..Len(kept) |-> kept[k].text]

\* item.get('description') and item['description'].strip()
HasDescription(item) ==
    item.description # <<>> /\ Strip(item.description) # <<>>

\* item.get('comments') and len(item['comments']) > 0
HasComments(item) == item.comments # None /\ Len(item.comments[1]) > 0

\* the summary_item built for a work item
\* (seeded fault: that keeps the empty texts)
SummaryItemAllTexts(item) ==
    IF HasDescription(item) /\ HasComments(item)
    THEN [title |-> item.title, description |-> item.description,
          comments |-> [k \in 1..Len(item.comments[1]) |-> item.comments[1][k].text]]
    ELSE IF HasDescription(item)
    THEN [title |-> item.title, description |-> item.description]
    ELSE IF HasComments(item)
    THEN [title |-> item.title,
          comments |-> [k \in 1..Len(item.comments[1]) |-> item.comments[1][k].text]]
    ELSE [title |-> item.title]

SummaryItem(item) ==
    IF HasDescription(item) /\ HasComments(item)
    THEN [title |-> item.title, description |-> item.description,
          comments |-> NonEmptyTexts(item.comments[1])]
    ELSE IF HasDescription(item)
    THEN [title |-> item.title, description |-> item.description]
    ELSE IF HasComments(item)
    THEN [title |-> item.title, comments |-> NonEmptyTexts(item.comments[1])]
    ELSE [title |-> item.title]

\* the dict get_work_items_summary returns
Summary(res) ==
    [sprint      |-> res.sprint,
     total_count |-> res.total_count,
     items       |-> [k \in 1..Len(res.work_items) |-> SummaryItem(res.work_items[k])]]

-----------------------------------------------------------------------------
\* list_sprints: mapping and ordering of the iterations

\* the dict appended to sprints for the k-th iteration; the iteration's name
\* is its position in the reply
SprintOf(its, k) == [name |-> k, time_frame |-> its[k]]

\* order.get(x.get('time_frame', 'past'), 3): the key 'time_frame' is always
\* present in x, so the default 'past' never applies
\* (seeded fault: the default 'past' applies to an absent phase)
PhaseRankDefaultPast(sprint) ==
    IF sprint.time_frame = Some("current") THEN 0
    ELSE IF sprint.time_frame = Some("future") THEN 1
    ELSE IF sprint.time_frame = Some("past") \/ sprint.time_frame = None THEN 2
    ELSE 3

PhaseRank(sprint) ==
    IF sprint.time_frame = Some("current") THEN 0
    ELSE IF sprint.time_frame = Some("future") THEN 1
    ELSE IF sprint.time_frame = Some("past") THEN 2
    ELSE 3

\* list.sort(key=...) is stable: an element goes after the elements of lower
\* or equal key that came before it
RECURSIVE InsertByRank(_, _)
InsertByRank(sorted, x) ==
    IF sorted = <<>> THEN <<x>>
    ELSE IF PhaseRank(sorted[Len(sorted)]) <= PhaseRank(x)
         THEN Append(sorted, x)
         ELSE Append(InsertByRank(SubSeq(sorted, 1, Len(sorted) - 1), x),
                     sorted[Len(sorted)])

RECURSIVE SortByRank(_)
SortByRank(s) ==
    IF s = <<>> THEN <<>>
    ELSE InsertByRank(SortByRank(SubSeq(s, 1, Len(s) - 1)), s[Len(s)])

\* the dict list_sprints returns for the iterations of a reply
SprintsBody(its) ==
    LET sprints == [k \in 1..Len(its) |-> SprintOf(its, k)]
    IN  [total |-> Len(sprints), sprints |-> SortByRank(sprints)]

-----------------------------------------------------------------------------
\* Inputs

\* the numbers of ids the WIQL query may return
IdCounts ==
    (0..SmallIds) \cup
    {batch_size - 1, batch_size, batch_size + 1, 2 * batch_size, MaxIds}

Worlds == [n : IdCounts, seed : 0..MaxSeed, flaky : BOOLEAN]

\* before the WIQL call is answered the request has read nothing
NoWorld == [n |-> 0, seed |-> 0, flaky |-> FALSE]

\* the Authorization headers a request may carry
Headers ==
    {None, Some(<<>>), Some(<<" ">>), Some(Bearer), Some(Bearer \o Bearer),
     Some(Tok), Some(Bearer \o Tok)}

WorkItemRoutes == {"/work-items", "/work-items/summary"}

\* what the iterations endpoint may answer
IterationsReplies ==
    {[status |-> r.status, text |-> r.text, value |-> <<>>] :
        r \in ErrorReplies \cup {NetworkError}} \cup
    {[status |-> 200, text |-> "ok", value |-> its] : its \in IterationLists}

\* what the WIQL endpoint may answer: the 'workItems' key may be absent when
\* nothing matches
WiqlReplies(w) ==
    {[status |-> r.status, text |-> r.text, workItems |-> None] :
        r \in ErrorReplies \cup {NetworkError}} \cup
    {[status |-> 200, text |-> "ok", workItems |-> Some(RemoteIds(w))]} \cup
    (IF w.n = 0 THEN {[status |-> 200, text |-> "ok", workItems |-> None]} ELSE {})

\* what the batch detail endpoint may answer
DetailsReplies == ErrorReplies \cup {NetworkError, OkReply}

-----------------------------------------------------------------------------
\* The server

Init ==
    /\ configured \in BOOLEAN
    /\ world = NoWorld
    /\ pc = "idle"
    /\ endpoint = "none"
    /\ authorization = None
    /\ pat = <<>>
    /\ calls = <<>>
    /\ replies = <<>>
    /\ iterations = <<>>
    /\ work_item_ids = <<>>
    /\ i = 0
    /\ all_items_data = <<>>
    /\ result = None
    /\ status = 0
    /\ detail = None
    /\ body = None

\* raise HTTPException(status_code, detail): the request ends in that error
Raise(e) ==
    /\ status' = e.status
    /\ detail' = Some(e.detail)
    /\ body' = None
    /\ pc' = "done"

\* the request is refused by a validation check, before any outbound call
Refuse(code) ==
    /\ Raise([status |-> code,
              detail |-> [msg  |-> IF code = 500 THEN "configuration incomplete"
                                   ELSE "Authorization header required",
                          text |-> ""]])
    /\ calls' = <<>>

\* the state a request starts from: nothing is kept from the request before
Fresh ==
    /\ pc \in {"idle", "done"}
    /\ replies' = <<>>
    /\ iterations' = <<>>
    /\ work_item_ids' = <<>>
    /\ i' = 0
    /\ all_items_data' = <<>>
    /\ result' = None
    /\ world' = NoWorld
    /\ UNCHANGED configured

\* GET /sprints arrives: list_sprints up to its outbound call
ReceiveListSprints(auth) ==
    /\ Fresh
    /\ endpoint' = "/sprints"
    /\ authorization' = auth
    /\ IF ListSprintsValidate(configured, auth) # 0
       THEN /\ Refuse(ListSprintsValidate(configured, auth))
            /\ pat' = <<>>
       ELSE /\ pat' = ExtractPat(auth)
            /\ calls' = <<[kind |-> "iterations", ids |-> <<>>]>>
            /\ status' = 0
            /\ detail' = None
            /\ body' = None
            /\ pc' = "iterations"

\* the iterations call returns, or raises: the rest of list_sprints
IterationsReply(reply) ==
    /\ pc = "iterations"
    /\ replies' = Append(replies, [status |-> reply.status, text |-> reply.text])
    /\ IF reply.status = 0
       THEN Raise(ServerError("error", reply))
       ELSE IF reply.status # 200
       THEN Raise(UpstreamError("cannot get sprints", reply))
       ELSE /\ status' = 200
            /\ detail' = None
            /\ body' = Some(SprintsBody(reply.value))
            /\ pc' = "done"
    /\ iterations' = (IF reply.status = 200 THEN reply.value ELSE iterations)
    /\ UNCHANGED <<configured, world, endpoint, authorization, pat, calls,
                   work_item_ids, i, all_items_data, result>>

\* GET /work-items or /work-items/summary arrives: the endpoint and
\* get_work_items_by_sprint up to the WIQL call
ReceiveWorkItems(route, auth) ==
    /\ Fresh
    /\ endpoint' = route
    /\ authorization' = auth
    /\ IF WorkItemsValidate(configured, auth) # 0
       THEN /\ Refuse(WorkItemsValidate(configured, auth))
            /\ pat' = (IF EndpointValidate(auth) # 0 THEN <<>> ELSE ExtractPat(auth))
       ELSE /\ pat' = ExtractPat(auth)
            /\ calls' = <<[kind |-> "wiql", ids |-> <<>>]>>
            /\ status' = 0
            /\ detail' = None
            /\ body' = None
            /\ pc' = "wiql"

\* get_work_items_by_sprint returns res: the endpoint answers with it, or with
\* its reduction
Return(res) ==
    /\ result' = Some(res)
    /\ status' = 200
    /\ detail' = None
    /\ body' = Some(IF endpoint = "/work-items" THEN res ELSE Summary(res))
    /\ pc' = "done"

\* the head of the batch loop for offset k: the next detail call is issued,
\* or the loop is over and the items are processed (a comment call for each
\* item that wants one) and the envelope returned
LoopOrFinish(ids, k, all, rs, w) ==
    /\ i' = k
    /\ all_items_data' = all
    /\ IF InRange(k, Len(ids))
       THEN /\ calls' = Append(calls, [kind |-> "details", ids |-> BatchIds(ids, k)])
            /\ replies' = rs
            /\ UNCHANGED <<result, status, detail, body>>
            /\ pc' = "details"
       ELSE /\ calls' = calls \o CommentCalls(all)
            /\ replies' = rs \o CommentReplies(all, w)
            /\ Return(Envelope(SprintName, BuildWorkItems(all, w)))

\* the WIQL call returns, or raises; w is the remote data it reads
WiqlReply(w, reply) ==
    /\ pc = "wiql"
    /\ LET rs == Append(replies, [status |-> reply.status, text |-> reply.text])
           work_items_result ==
               IF reply.workItems = None THEN <<>> ELSE reply.workItems[1]
       IN  IF reply.status = 0
           THEN /\ Raise(ServerError("Azure DevOps API error", reply))
                /\ replies' = rs
                /\ UNCHANGED <<calls, work_item_ids, i, all_items_data, result>>
           ELSE IF reply.status # 200
           THEN /\ Raise(UpstreamError("WIQL query failed", reply))
                /\ replies' = rs
                /\ UNCHANGED <<calls, work_item_ids, i, all_items_data, result>>
           ELSE IF work_items_result = <<>>
           THEN /\ Return(EmptyEnvelope(SprintName))
                /\ replies' = rs
                /\ UNCHANGED <<calls, work_item_ids, i, all_items_data>>
           ELSE /\ work_item_ids' = work_items_result
                /\ LoopOrFinish(work_items_result, 0, <<>>, rs, w)
    /\ world' = (IF reply.status = 200 THEN w ELSE world)
    /\ UNCHANGED <<configured, endpoint, authorization, pat, iterations>>

\* a detail call returns, or raises
DetailsReply(reply) ==
    /\ pc = "details"
    /\ IF reply.status = 0
       THEN /\ Raise(ServerError("Azure DevOps API error", reply))
            /\ replies' = Append(replies, reply)
            /\ UNCHANGED <<calls, i, all_items_data, result>>
       ELSE LoopOrFinish(work_item_ids, i + batch_size,
                         Extend(all_items_data, reply,
                                DetailsValue(calls[Len(calls)].ids, world.seed)),
                         Append(replies, reply), world)
    /\ UNCHANGED <<configured, world, endpoint, authorization, pat, iterations,
                   work_item_ids>>

Next ==
    \/ \E auth \in Headers : ReceiveListSprints(auth)
    \/ \E reply \in IterationsReplies : IterationsReply(reply)
    \/ \E route \in WorkItemRoutes, auth \in Headers : ReceiveWorkItems(route, auth)
    \/ \E w \in Worlds : \E reply \in WiqlReplies(w) : WiqlReply(w, reply)
    \/ \E reply \in DetailsReplies : DetailsReply(reply)

Spec == Init /\ [][Next]_vars

-----------------------------------------------------------------------------
\* Vocabulary of the properties

Done == pc = "done"

\* the positions in the call log of the calls of a kind
CallsOf(kind) == {j \in 1..Len(calls) : calls[j].kind = kind}

\* the detail calls, in call order
DetailCalls == SelectSeq(calls, LAMBDA c : c.kind = "details")

\* ceil(n / 200)
CeilBatches(n) == (n + 199) \div 200

\* the id lists of the calls cs[1..k], concatenated
RECURSIVE ConcatIds(_, _)
ConcatIds(cs, k) == IF k = 0 THEN <<>> ELSE ConcatIds(cs, k - 1) \o cs[k].ids

\* the id lists of the detail calls among calls[1..k] that were answered 200,
\* concatenated
RECURSIVE AnsweredIds(_)
AnsweredIds(k) ==
    IF k = 0 THEN <<>>
    ELSE AnsweredIds(k - 1) \o
         (IF calls[k].kind = "details" /\ replies[k].status = 200
          THEN calls[k].ids ELSE <<>>)

\* the detail calls that got an answer other than 200, or none at all
FailedBatches ==
    {j \in CallsOf("details") : j <= Len(replies) /\ replies[j].status # 200}

\* the detail calls that raised a network error
RaisedBatches ==
    {j \in CallsOf("details") : j <= Len(replies) /\ replies[j].status = 0}

\* the ids of the work items of the envelope, in order
ResultIds == [k \in 1..Len(result[1].work_items) |-> result[1].work_items[k].id]

\* the request went through get_work_items_by_sprint and returned an envelope
Returned == Done /\ endpoint \in WorkItemRoutes /\ status = 200 /\ result # None

-----------------------------------------------------------------------------
\* C1 (as stated): on every data endpoint and under every configuration, a
\* request without Authorization header ends with status 401.
C1_NoHeaderAlways401 ==
    (Done /\ authorization = None) => status = 401

\* C1 (amended): a request without Authorization header ends with status 401
\* on /work-items and /work-items/summary under every configuration and on
\* /sprints when org/project are configured; on /sprints with missing
\* configuration it ends with status 500.
C1_NoHeaderStatus ==
    (Done /\ authorization = None) =>
        status = (IF endpoint = "/sprints" /\ ~configured THEN 500 ELSE 401)

C1_Witness ==
    Done /\ authorization = None /\ endpoint = "/sprints" /\ ~configured /\ status = 500

-----------------------------------------------------------------------------
\* the credential is absent: no header, or no token left once "Bearer " is
\* removed and the rest trimmed
CredentialAbsent ==
    authorization = None \/ Strip(ReplaceWithEmpty(authorization[1], Bearer)) = <<>>

\* C2: on every data endpoint, a request with missing configuration or absent
\* credential ends in the matching error (500 for configuration, 401 for the
\* credential) and has issued no outbound call.
C2_FailFast ==
    (pc # "idle" /\ (~configured \/ CredentialAbsent)) =>
        /\ Done
        /\ calls = <<>>
        /\ status \in ((IF ~configured THEN {500} ELSE {}) \cup
                       (IF CredentialAbsent THEN {401} ELSE {}))

-----------------------------------------------------------------------------
\* C3: when the WIQL query returns N >= 1 ids and no WIQL or detail call
\* raises, there are ceil(N/200) detail calls, each of at most 200 ids, and
\* their id lists concatenated in call order are the WIQL id list.
C3_Batches ==
    (Returned /\ work_item_ids # <<>>) =>
        /\ Len(DetailCalls) = CeilBatches(Len(work_item_ids))
        /\ \A k \in 1..Len(DetailCalls) : Len(DetailCalls[k].ids) <= 200
        /\ ConcatIds(DetailCalls, Len(DetailCalls)) = work_item_ids

C3_Witness ==
    /\ Returned
    /\ Len(work_item_ids) = MaxIds
    /\ Len(DetailCalls) = 3
    /\ \A j \in 1..Len(replies) : replies[j].status # 0

-----------------------------------------------------------------------------
\* C4: when the WIQL query succeeds with an empty or absent workItems list,
\* the envelope has total_count, created_by_me and assigned_to_me 0 and no
\* work items, and the WIQL call is the only outbound call.
C4_EmptyResult ==
    (Done /\ endpoint \in WorkItemRoutes /\ replies # <<>>
          /\ replies[1].status = 200 /\ world.n = 0) =>
        /\ status = 200
        /\ result = Some([sprint |-> SprintName, total_count |-> 0,
                          created_by_me |-> 0, assigned_to_me |-> 0,
                          work_items |-> <<>>])
        /\ endpoint = "/work-items" => body = result
        /\ calls = <<[kind |-> "wiql", ids |-> <<>>]>>

C4_Witness ==
    /\ Done /\ endpoint = "/work-items" /\ replies # <<>>
    /\ replies[1].status = 200 /\ world.n = 0 /\ status = 200

-----------------------------------------------------------------------------
\* what "the failed batch is skipped" says of a finished request
BatchesSkipped ==
    /\ status = 200
    /\ result # None
    /\ Len(DetailCalls) = CeilBatches(Len(work_item_ids))
    /\ ResultIds = AnsweredIds(Len(calls))
    /\ result[1].total_count = Len(result[1].work_items)

\* C5 (as stated): a detail batch that fails, by a non-200 status or by a
\* network error, is skipped: the request returns the envelope of the items of
\* the batches that succeeded, and the later batches are still fetched.
C5_FailedBatchSkipped ==
    (Done /\ FailedBatches # {}) => BatchesSkipped

\* C5 (amended): a detail batch answered with a non-200 status is skipped as
\* stated; a detail batch that raises a network error ends the request with
\* status 500, without envelope and without any further outbound call.
C5_FailedBatch ==
    (Done /\ FailedBatches # {}) =>
        IF RaisedBatches = {}
        THEN BatchesSkipped
        ELSE /\ status = 500
             /\ result = None
             /\ body = None
             /\ RaisedBatches = {Len(calls)}

C5_Witness ==
    /\ Returned
    /\ \E j, k \in CallsOf("details") :
          j < k /\ replies[j].status = 503 /\ replies[k].status = 200
    /\ Len(result[1].work_items) > 0

-----------------------------------------------------------------------------
\* the ids of the items of all_items_data that report a comment count > 0
CommentedIds ==
    {all_items_data[k].id : k \in
        {k \in 1..Len(all_items_data) :
            /\ all_items_data[k].commentCount # None
            /\ all_items_data[k].commentCount[1] > 0}}

\* the ids the comment calls were issued for
CommentCallIds == {calls[j].ids[1] : j \in CallsOf("comments")}

-----------------------------------------------------------------------------
\* the phase rank of the sprint ordering
C7_Rank(tf) ==
    IF tf = Some("current") THEN 0
    ELSE IF tf = Some("future") THEN 1
    ELSE IF tf = Some("past") THEN 2
    ELSE 3

\* C7: list_sprints returns the iterations of the reply, each once, ordered
\* ascending by the rank current=0, future=1, past=2, other or absent=3, items
\* of equal rank in their input order; total is the number of iterations.
C7_SprintOrder ==
    (Done /\ endpoint = "/sprints" /\ status = 200) =>
        LET out == body[1].sprints
        IN  /\ body[1].total = Len(iterations)
            /\ Len(out) = Len(iterations)
            /\ {out[k].name : k \in 1..Len(out)} = 1..Len(iterations)
            /\ \A k \in 1..Len(out) : out[k].time_frame = iterations[out[k].name]
            /\ \A j, k \in 1..Len(out) :
                  j < k =>
                    \/ C7_Rank(out[j].time_frame) < C7_Rank(out[k].time_frame)
                    \/ /\ C7_Rank(out[j].time_frame) = C7_Rank(out[k].time_frame)
                       /\ out[j].name < out[k].name

C7_Witness ==
    /\ Done /\ endpoint = "/sprints" /\ status = 200
    /\ iterations = <<Some("past"), Some("current"), Some("future"), Some("current")>>
    /\ [k \in 1..4 |-> body[1].sprints[k].name] = <<2, 4, 3, 1>>

-----------------------------------------------------------------------------
\* the non-empty texts among comments[1..k], in order
RECURSIVE C8_Texts(_, _)
C8_Texts(comments, k) ==
    IF k = 0 THEN <<>>
    ELSE C8_Texts(comments, k - 1) \o
         (IF Len(comments[k].text) > 0 THEN <<comments[k].text>> ELSE <<>>)

\* the comments of a work item of the envelope, [] when it has none
C8_Comments(item) == IF item.comments = None THEN <<>> ELSE item.comments[1]

\* what C8 says of title and description, and of the shape of the list
C8_TitleAndDescription ==
    LET items == result[1].work_items
        red   == body[1].items
    IN  /\ Len(red) = Len(items)
        /\ body[1].total_count = result[1].total_count
        /\ \A k \in 1..Len(red) :
              /\ DOMAIN red[k] \subseteq {"title", "description", "comments"}
              /\ "title" \in DOMAIN red[k]
              /\ red[k].title = items[k].title
              /\ "description" \in DOMAIN red[k] <=> Strip(items[k].description) # <<>>
              /\ "description" \in DOMAIN red[k] => red[k].description = items[k].description

Summarised == Done /\ endpoint = "/work-items/summary" /\ status = 200

\* C8 (as stated): every reduced item has the title; a description key iff
\* the description is non-empty after trimming; a comments key only if at
\* least one non-empty comment text exists, its value the non-empty comment
\* texts in order, never an empty list; so an item with empty description and
\* no comments reduces to the title alone.  One reduced item per work item.
C8_ReductionNeverEmptyList ==
    Summarised =>
        /\ C8_TitleAndDescription
        /\ \A k \in 1..Len(body[1].items) :
              LET texts == C8_Texts(C8_Comments(result[1].work_items[k]),
                                    Len(C8_Comments(result[1].work_items[k])))
              IN  /\ "comments" \in DOMAIN body[1].items[k] <=> texts # <<>>
                  /\ "comments" \in DOMAIN body[1].items[k] =>
                        body[1].items[k].comments = texts

\* C8 (amended): as stated, except that the comments key is present iff the
\* item has at least one comment, whatever its text: when every comment text
\* of such an item is empty, the value is the empty list.
C8_Reduction ==
    Summarised =>
        /\ C8_TitleAndDescription
        /\ \A k \in 1..Len(body[1].items) :
              LET cs == C8_Comments(result[1].work_items[k])
              IN  /\ "comments" \in DOMAIN body[1].items[k] <=> cs # <<>>
                  /\ "comments" \in DOMAIN body[1].items[k] =>
                        body[1].items[k].comments = C8_Texts(cs, Len(cs))

C8_Witness ==
    /\ Summarised
    /\ \E k \in 1..Len(body[1].items) :
          /\ "comments" \in DOMAIN body[1].items[k]
          /\ body[1].items[k].comments = <<>>
    /\ \E k \in 1..Len(body[1].items) : DOMAIN body[1].items[k] = {"title"}
    /\ \E k \in 1..Len(body[1].items) :
          /\ "comments" \in DOMAIN body[1].items[k]
          /\ Len(body[1].items[k].comments) = 2
          /\ Len(result[1].work_items[k].comments[1]) = 3

-----------------------------------------------------------------------------
\* C9: when the WIQL query, or for /sprints the iterations request, is
\* answered with a status other than 200, the request ends in an error of that
\* status whose detail carries the upstream body, and that call is the only
\* outbound call of the request.
C9_UpstreamError ==
    (Done /\ replies # <<>> /\ replies[1].status \notin {0, 200}) =>
        /\ status = replies[1].status
        /\ detail # None
        /\ detail[1].text = replies[1].text
        /\ body = None
        /\ Len(calls) = 1
        /\ Len(replies) = 1

C9_Witness ==
    /\ Done /\ endpoint = "/work-items" /\ replies # <<>>
    /\ replies[1].status = 503 /\ status = 503

-----------------------------------------------------------------------------
\* the ids whose comment call failed: a network error or a non-200 status
FailedCommentIds ==
    {calls[j].ids[1] : j \in {j \in CallsOf("comments") : replies[j].status # 200}}

\* C10: a comment call that fails never aborts the request: the request
\* returns the envelope, every item of the detail batches is in it, in order,
\* and the item whose comment call failed has its reported comments_count
\* and null comments.
C10_CommentFailure ==
    (Done /\ FailedCommentIds # {}) =>
        /\ status = 200
        /\ result # None
        /\ Len(result[1].work_items) = Len(all_items_data)
        /\ \A k \in 1..Len(all_items_data) :
              /\ result[1].work_items[k].id = all_items_data[k].id
              /\ all_items_data[k].id \in FailedCommentIds =>
                    /\ result[1].work_items[k].comments = None
                    /\ Some(result[1].work_items[k].comments_count)
                           = all_items_data[k].commentCount

C10_Witness ==
    /\ Returned
    /\ \E j, k \in CallsOf("comments") :
          j < k /\ replies[j].status = 0 /\ replies[k].status = 503
    /\ \E k, later \in 1..Len(all_items_data) :
          /\ all_items_data[k].id \in FailedCommentIds
          /\ k < later
          /\ result[1].work_items[later].comments # None

====
